---------------------------- MODULE Spec2Model ----------------------------
(***************************************************************************)
(* jpsvis2visualizer: conversion of a pedestrian trajectory dataset into   *)
(* the JuPedSim sqlite format (writer.py) and the batch front end          *)
(* (main.py).  The sqlite store is modelled by a small SQL engine: tables, *)
(* unique and plain indexes, the three INSERT conflict modes and explicit  *)
(* transactions.  Floats are modelled by the integers n standing for n.0.  *)
(***************************************************************************)
EXTENDS Integers, Sequences, FiniteSets, TLC

VARIABLES
    files,      \* input file name -> rows parsed from it (frame, id, x, y)
    stores,     \* output path -> content of the sqlite file at that path
    hashseed,   \* the salt of str hashing of the running interpreter
    dataset,    \* the TrajectoryData object the caller holds
    result,     \* what the last operation did
    before      \* stores and dataset as they were when it started, and
                \* the operation before it

vars == <<files, stores, hashseed, dataset, result, before>>

(***************************************************************************)
(* Bounds of the model.                                                    *)
(***************************************************************************)
MaxRows == 2        \* rows of an input file
MaxFrame == 2       \* frame numbers are 0 .. MaxFrame
MaxWrites == 2      \* runs of the data writer on a store between two resets

\* None, where a polygon, a list or a walkable area is optional
None == <<>>

(***************************************************************************)
(* Text renderings.                                                        *)
(***************************************************************************)
Digit(d) ==
    CASE d = 0 -> "0" [] d = 1 -> "1" [] d = 2 -> "2" [] d = 3 -> "3"
      [] d = 4 -> "4" [] d = 5 -> "5" [] d = 6 -> "6" [] d = 7 -> "7"
      [] d = 8 -> "8" [] d = 9 -> "9"

RECURSIVE NatText(_)
NatText(n) == IF n < 10 THEN Digit(n) ELSE NatText(n \div 10) \o Digit(n % 10)

\* str(n) of a Python int, and the text sqlite stores for an INTEGER bound
\* to a TEXT column
IntText(n) == IF n < 0 THEN "-" \o NatText(0 - n) ELSE NatText(n)

\* str(x) of a Python float with an integral value: "-1.0", "10.0"
FloatText(n) == IntText(n) \o ".0"

(***************************************************************************)
(* Polygons: the sequence of the vertices of the exterior ring, closed.    *)
(***************************************************************************)
Min(S) == CHOOSE m \in S : \A e \in S : m <= e
Max(S) == CHOOSE m \in S : \A e \in S : m >= e

\* shapely.box(minx, miny, maxx, maxy), counter-clockwise from (maxx, miny)
box(minx, miny, maxx, maxy) ==
    << <<maxx, miny>>, <<maxx, maxy>>, <<minx, maxy>>, <<minx, miny>>,
       <<maxx, miny>> >>

\* WalkableArea.bounds: (minx, miny, maxx, maxy) of the polygon
PolygonBounds(polygon) ==
    LET xs == {polygon[i][1] : i \in DOMAIN polygon}
        ys == {polygon[i][2] : i \in DOMAIN polygon}
    IN  <<Min(xs), Min(ys), Max(xs), Max(ys)>>

RECURSIVE RingText(_, _)
RingText(polygon, i) ==
    LET pt == IntText(polygon[i][1]) \o " " \o IntText(polygon[i][2])
    IN  IF i = Len(polygon) THEN pt ELSE pt \o ", " \o RingText(polygon, i + 1)

\* shapely.to_wkt(polygon, rounding_precision=-1): every coordinate in full
to_wkt(polygon) == "POLYGON ((" \o RingText(polygon, 1) \o "))"

\* hash(text) of a str: a function of the text and of the salt the
\* interpreter drew at start-up; equal texts hash alike under one salt
hash(seed, text) == [salt |-> seed, text |-> text]


(***************************************************************************)
(* The sqlite store.  A database is the set of its tables, the rows of     *)
(* each table in insertion order, and its indexes.  A connection holds the *)
(* committed file, the working copy of the open transaction and whether a  *)
(* transaction is open.                                                    *)
(***************************************************************************)
TableNames == {"trajectory_data", "metadata", "geometry", "frame_data"}

EmptyDb ==
    [tables |-> {}, rows |-> [t \in TableNames |-> <<>>], indexes |-> {}]

\* sqlite3.connect(output_file): no transaction is open
Connect(db) == [file |-> db, tx |-> db, active |-> FALSE]

Ok(conn) == [conn |-> conn, err |-> FALSE]
Fail(conn) == [conn |-> conn, err |-> TRUE]

\* The statements of the two transactions, as data.
Begin == [op |-> "BEGIN"]
Commit == [op |-> "COMMIT"]
Rollback == [op |-> "ROLLBACK"]
DropTableIfExists(t) == [op |-> "DROP", table |-> t]
\* unique: the columns of a UNIQUE column constraint, {} for none
CreateTable(t, unique) ==
    [op |-> "CREATE", table |-> t, unique |-> unique, if_not_exists |-> FALSE]
CreateIndex(n, t, cols, unique) ==
    [op |-> "INDEX", name |-> n, table |-> t, cols |-> cols, unique |-> unique]
\* executemany of an INSERT; mode is "ABORT" (plain INSERT), "IGNORE" or
\* "REPLACE"
Insert(t, rows, mode) == [op |-> "INSERT", table |-> t, rows |-> rows, mode |-> mode]

\* The one element of a singleton.  Only({F(x) : x \in {e}}) is F(e), with
\* e computed once however often F uses it.
Only(S) == CHOOSE x \in S : TRUE

\* The rows of table t that collide with row on some unique index.
Conflicts(db, t, row) ==
    {i \in DOMAIN db.rows[t] :
        \E idx \in db.indexes :
            /\ idx.table = t
            /\ idx.unique
            /\ \A c \in idx.cols : db.rows[t][i][c] = row[c]}

RECURSIVE Without(_, _)
Without(rows, drop) ==
    IF rows = <<>> THEN <<>>
    ELSE LET n == Len(rows)
             front == Without(SubSeq(rows, 1, n - 1), drop)
         IN  IF n \in drop THEN front ELSE Append(front, rows[n])

\* One row of an INSERT: [db, err].
InsertRow(db, t, row, mode) ==
    LET clash == Conflicts(db, t, row)
    IN  IF t \notin db.tables THEN [db |-> db, err |-> TRUE]
        ELSE IF clash = {} THEN
            [db |-> [db EXCEPT !.rows[t] = Append(@, row)], err |-> FALSE]
        ELSE IF mode = "IGNORE" THEN [db |-> db, err |-> FALSE]
        ELSE IF mode = "REPLACE" THEN
            [db |-> [db EXCEPT !.rows[t] = Append(Without(@, clash), row)],
             err |-> FALSE]
        ELSE [db |-> db, err |-> TRUE]

RECURSIVE InsertRows(_, _, _, _, _)
InsertRows(db, t, rows, mode, i) ==
    IF i > Len(rows) THEN [db |-> db, err |-> FALSE]
    ELSE Only({IF r.err THEN r ELSE InsertRows(r.db, t, rows, mode, i + 1) :
                  r \in {InsertRow(db, t, rows[i], mode)}})

\* A statement other than BEGIN, COMMIT and ROLLBACK, on a database.
ExecOnDb(db, s) ==
    CASE s.op = "DROP" ->
            [db |-> [tables |-> db.tables \ {s.table},
                     rows |-> [db.rows EXCEPT ![s.table] = <<>>],
                     indexes |-> {i \in db.indexes : i.table # s.table}],
             err |-> FALSE]
      [] s.op = "CREATE" ->
            IF s.table \in db.tables THEN [db |-> db, err |-> ~s.if_not_exists]
            ELSE [db |-> [tables |-> db.tables \cup {s.table},
                          rows |-> [db.rows EXCEPT ![s.table] = <<>>],
                          indexes |-> db.indexes \cup
                              (IF s.unique = {} THEN {}
                               ELSE {[name |-> "sqlite_autoindex_" \o s.table,
                                      table |-> s.table, cols |-> s.unique,
                                      unique |-> TRUE]})],
                  err |-> FALSE]
      [] s.op = "INDEX" ->
            IF \/ s.table \notin db.tables
               \/ \E i \in db.indexes : i.name = s.name
               \/ /\ s.unique
                  /\ \E i, j \in DOMAIN db.rows[s.table] :
                        /\ i # j
                        /\ \A c \in s.cols :
                              db.rows[s.table][i][c] = db.rows[s.table][j][c]
            THEN [db |-> db, err |-> TRUE]
            ELSE [db |-> [db EXCEPT !.indexes = @ \cup
                            {[name |-> s.name, table |-> s.table,
                              cols |-> s.cols, unique |-> s.unique]}],
                  err |-> FALSE]
      [] s.op = "INSERT" -> InsertRows(db, s.table, s.rows, s.mode, 1)

\* cursor.execute / cursor.executemany of one statement: [conn, err], err
\* when it raises sqlite3.Error.
Execute(conn, s) ==
    CASE s.op = "BEGIN" ->
            IF conn.active THEN Fail(conn)
            ELSE Ok([conn EXCEPT !.active = TRUE, !.tx = conn.file])
      [] s.op = "COMMIT" ->
            IF ~conn.active THEN Fail(conn)
            ELSE Ok([conn EXCEPT !.active = FALSE, !.file = conn.tx])
      [] s.op = "ROLLBACK" ->
            IF ~conn.active THEN Fail(conn)
            ELSE Ok([conn EXCEPT !.active = FALSE, !.tx = conn.file])
      [] OTHER ->
            Only({IF r.err THEN Fail(conn)
                  ELSE IF conn.active THEN Ok([conn EXCEPT !.tx = r.db])
                  ELSE Ok([conn EXCEPT !.tx = r.db, !.file = r.db]) :
                  r \in {ExecOnDb(conn.tx, s)}})

(***************************************************************************)
(* An injected storage failure: statement number `at` of the transaction   *)
(* raises sqlite3.Error (0: none does).  sqlite answers some errors (disk  *)
(* full, I/O error) by rolling the transaction back by itself; `auto`      *)
(* tells whether it did.  BEGIN takes no lock and does not fail.           *)
(***************************************************************************)
NoFailure == [at |-> 0, auto |-> FALSE]

RECURSIVE RunStatements(_, _, _, _)
RunStatements(conn, stmts, k, fail) ==
    IF k > Len(stmts) THEN Ok(conn)
    ELSE IF k = fail.at THEN
        Fail(IF fail.auto THEN [conn EXCEPT !.active = FALSE, !.tx = conn.file]
             ELSE conn)
    ELSE Only({IF r.err THEN r ELSE RunStatements(r.conn, stmts, k + 1, fail) :
                  r \in {Execute(conn, stmts[k])}})

NoException == [type |-> "none", message |-> "", cause |-> "none"]

\* raise RuntimeError(message) from e, e the sqlite3.Error caught
RuntimeError(message) ==
    [type |-> "RuntimeError", message |-> message, cause |-> "sqlite3.Error"]

\* what cursor.execute("ROLLBACK") raises when no transaction is open
NoTransactionError ==
    [type |-> "sqlite3.OperationalError",
     message |-> "cannot rollback - no transaction is active",
     cause |-> "none"]

(***************************************************************************)
(* TrajectoryData: data is the table of rows, each a function from the     *)
(* column names to values; frame_range and bounds are computed from data   *)
(* whenever they are read.                                                 *)
(***************************************************************************)
frame_range(td) ==
    LET fs == {td.data[i]["frame"] : i \in DOMAIN td.data}
    IN  <<Min(fs), Max(fs)>>

bounds(td) ==
    LET xs == {td.data[i]["x"] : i \in DOMAIN td.data}
        ys == {td.data[i]["y"] : i \in DOMAIN td.data}
    IN  <<Min(xs), Min(ys), Max(xs), Max(ys)>>

\* data[name] = value: the column is added to, or overwritten in, every row
SetColumn(data, name, value) ==
    [i \in DOMAIN data |-> (name :> value) @@ data[i]]

\* data["frame"] -= n, in place
SubtractFromFrame(data, n) ==
    [i \in DOMAIN data |-> [data[i] EXCEPT !["frame"] = @ - n]]

\* list(data[cols].itertuples(index=False, name=None))
itertuples(data, cols) ==
    [i \in DOMAIN data |-> [c \in DOMAIN cols |-> data[i][cols[c]]]]

(***************************************************************************)
(* _setup_sqlite_database                                                  *)
(***************************************************************************)
DATABASE_VERSION == 2

\* A set-up that keeps a frame_data table it finds:
\* CREATE TABLE IF NOT EXISTS frame_data in place of the DROP and the CREATE.
SetupStatements_KeepsFrameData(fps, geometry, seed) ==
    << Begin,
       DropTableIfExists("trajectory_data"),
       CreateTable("trajectory_data", {}),
       DropTableIfExists("metadata"),
       CreateTable("metadata", {1}),
       Insert("metadata",
              << <<"version", IntText(DATABASE_VERSION)>>,
                 <<"fps", FloatText(fps)>> >>, "ABORT"),
       DropTableIfExists("geometry"),
       CreateTable("geometry", {}),
       CreateIndex("geometry_hash", "geometry", {1}, TRUE),
       Insert("geometry", << <<hash(seed, geometry), geometry>> >>, "ABORT"),
       [CreateTable("frame_data", {}) EXCEPT !.if_not_exists = TRUE],
       CreateIndex("frame_id_idx", "trajectory_data", {1, 2}, FALSE),
       Commit >>

SetupStatements(fps, geometry, seed) ==
    << Begin,
       DropTableIfExists("trajectory_data"),
       CreateTable("trajectory_data", {}),
       DropTableIfExists("metadata"),
       CreateTable("metadata", {1}),
       \* the value column is TEXT: the int and the float are stored as text
       Insert("metadata",
              << <<"version", IntText(DATABASE_VERSION)>>,
                 <<"fps", FloatText(fps)>> >>, "ABORT"),
       DropTableIfExists("geometry"),
       CreateTable("geometry", {}),
       CreateIndex("geometry_hash", "geometry", {1}, TRUE),
       Insert("geometry", << <<hash(seed, geometry), geometry>> >>, "ABORT"),
       DropTableIfExists("frame_data"),
       CreateTable("frame_data", {}),
       CreateIndex("frame_id_idx", "trajectory_data", {1, 2}, FALSE),
       Commit >>

\* A handler that commits where it should roll back.
ExceptSqliteError_Commits(conn, error) ==
    Only({[conn |-> IF c.err THEN conn ELSE c.conn, exc |-> error] :
          c \in {Execute(conn, Commit)}})

\* except sqlite3.Error as e: cursor.execute("ROLLBACK"); raise RuntimeError
\* An error of the ROLLBACK itself leaves the handler in place of the
\* RuntimeError.
ExceptSqliteError(conn, error) ==
    Only({IF rb.err THEN [conn |-> rb.conn, exc |-> NoTransactionError]
          ELSE [conn |-> rb.conn, exc |-> error] :
          rb \in {Execute(conn, Rollback)}})

\* what the set-up raises: RuntimeError(f"Error creating database: {e}")
SetupError == RuntimeError("Error creating database")

\* [conn, exc]
setup_sqlite_database(conn, td, walkable_area, seed, fail) ==
    LET fps == td.frame_rate
        geometry == to_wkt(walkable_area)
    IN  Only({IF r.err THEN ExceptSqliteError(r.conn, SetupError)
              ELSE [conn |-> r.conn, exc |-> NoException] :
              r \in {RunStatements(conn, SetupStatements(fps, geometry, seed), 1, fail)}})

(***************************************************************************)
(* _write_sqlite_database                                                  *)
(***************************************************************************)
\* A writer that forgets to rebase the frames.
RebasedData_NotRebased(td) == SetColumn(td.data, "zero", 0)

\* A writer that takes the first frame to be 1 whatever the data.
RebasedData_FirstFrameOne(td) ==
    SubtractFromFrame(SetColumn(td.data, "zero", 0), 1)

\* data["zero"] = 0; data["frame"] -= min_frame: the caller's table itself
RebasedData(td) ==
    LET min_frame == frame_range(td)[1]
    IN  SubtractFromFrame(SetColumn(td.data, "zero", 0), min_frame)

\* range(frame_min, frame_max): the last frame left out
FrameGeoData_LastFrameMissing(frame_min, frame_max, geo_hash) ==
    [i \in 1 .. (frame_max - frame_min) |-> <<frame_min + i - 1, geo_hash>>]

\* range(frame_min, frame_max + 1), paired with the geometry hash
FrameGeoData(frame_min, frame_max, geo_hash) ==
    [i \in 1 .. (frame_max - frame_min + 1) |-> <<frame_min + i - 1, geo_hash>>]

\* The bounds (minx, miny, maxx, maxy) read as (xmin, xmax, ymin, ymax).
BoundsMetadata_WrongOrder(area_bounds) ==
    << <<"xmin", FloatText(area_bounds[1])>>,
       <<"xmax", FloatText(area_bounds[2])>>,
       <<"ymin", FloatText(area_bounds[3])>>,
       <<"ymax", FloatText(area_bounds[4])>> >>

BoundsMetadata(area_bounds) ==
    << <<"xmin", FloatText(area_bounds[1])>>,
       <<"xmax", FloatText(area_bounds[3])>>,
       <<"ymin", FloatText(area_bounds[2])>>,
       <<"ymax", FloatText(area_bounds[4])>> >>

\* td is the dataset after the two in-place updates
WriteStatements(td, walkable_area, seed) ==
    LET traj_data == itertuples(td.data, <<"frame", "id", "x", "y", "zero", "zero">>)
        geo_wkt == to_wkt(walkable_area)
        geo_hash == hash(seed, geo_wkt)
        fr == frame_range(td)
    IN  << Begin,
           Insert("trajectory_data", traj_data, "ABORT"),
           Insert("geometry", << <<geo_hash, geo_wkt>> >>, "IGNORE"),
           Insert("frame_data", FrameGeoData(fr[1], fr[2], geo_hash), "IGNORE"),
           Insert("metadata", BoundsMetadata(PolygonBounds(walkable_area)), "REPLACE"),
           Commit >>

\* what the writer raises: RuntimeError(f"Error creating database: {e}")
WriteError == RuntimeError("Error creating database")

\* [conn, exc, td]: td is the caller's dataset as the call leaves it
write_sqlite_database(conn, td, walkable_area, seed, fail) ==
    LET Written(td2) ==
            Only({IF r.err THEN [td |-> td2] @@ ExceptSqliteError(r.conn, WriteError)
                  ELSE [conn |-> r.conn, exc |-> NoException, td |-> td2] :
                  r \in {RunStatements(conn, WriteStatements(td2, walkable_area, seed),
                                       1, fail)}})
    IN  Only({Written(td2) : td2 \in {[td EXCEPT !.data = RebasedData(td)]}})

(***************************************************************************)
(* write_trajectory_to_sqlite                                              *)
(***************************************************************************)
\* the walkable area in use: the one given, or the box around the data
ResolveWalkableArea(td, walkable_area) ==
    IF walkable_area = None THEN
        LET b == bounds(td)
        IN  box(b[1] - 1, b[2] - 1, b[3] + 1, b[4] + 1)
    ELSE walkable_area

\* fail: [phase, at, auto]; the result is [db, td, exc, phase, area, setup]:
\* the file and the dataset after the call, what it raised and in which
\* phase, the polygon used and the file as the set-up left it.
write_trajectory_to_sqlite(td, walkable_area, db, seed, fail) ==
    LET f(phase) == IF fail.phase = phase THEN [at |-> fail.at, auto |-> fail.auto]
                    ELSE NoFailure
        \* _write_sqlite_database(connection, trajectory_data, walkable_area)
        Written(area, s) ==
            Only({[db |-> w.conn.file, td |-> w.td, exc |-> w.exc,
                   phase |-> IF w.exc = NoException THEN "done" ELSE "write",
                   area |-> area, setup |-> s.conn.file] :
                  w \in {write_sqlite_database(s.conn, td, area, seed, f("write"))}})
        \* _setup_sqlite_database(connection, trajectory_data, walkable_area);
        \* what it raises ends the call
        SetUp(area) ==
            Only({IF s.exc # NoException THEN
                      [db |-> s.conn.file, td |-> td, exc |-> s.exc,
                       phase |-> "setup", area |-> area, setup |-> s.conn.file]
                  ELSE Written(area, s) :
                  s \in {setup_sqlite_database(Connect(db), td, area, seed, f("setup"))}})
    IN  Only({SetUp(area) : area \in {ResolveWalkableArea(td, walkable_area)}})

(***************************************************************************)
(* main.py: the batch front end                                            *)
(***************************************************************************)
BadParameter(message) ==
    [type |-> "typer.BadParameter", message |-> message, cause |-> "none"]

\* output_file is None
NoOutput == ""

\* geometry and geometry_file are the polygons the two options denote, None
\* for an option not given: [exc, walkable_area]
validate_geometry_options(geometry, geometry_file) ==
    IF geometry # None /\ geometry_file # None THEN
        [exc |-> BadParameter("Cannot use both --geometry and --geometry_file at the same time."),
         walkable_area |-> None]
    ELSE IF geometry # None THEN [exc |-> NoException, walkable_area |-> geometry]
    ELSE IF geometry_file # None THEN
        [exc |-> NoException, walkable_area |-> geometry_file]
    ELSE [exc |-> NoException, walkable_area |-> None]

validate_output_file(number_files) ==
    IF number_files > 1 THEN
        BadParameter("Cannot use both --output-file if the file pattern matches multiple files")
    ELSE NoException

\* input_path.with_suffix(".sqlite")
auto_generate_output(input_path) ==
    CASE input_path = "a.txt" -> "a.sqlite"
      [] input_path = "b.txt" -> "b.sqlite"

\* load_trajectory_from_txt: a new TrajectoryData object
load_trajectory_data(content) ==
    [data |-> content.data, frame_rate |-> content.frame_rate]

\* for file in files: ...; an exception of a job ends the loop.
\* fail: [file, phase, at, auto], the failure injected into the job of the
\* file-th file.  [stores, exc, opened]
RECURSIVE ProcessFiles(_, _, _, _, _, _, _, _, _)
ProcessFiles(st, opened, inputs, matched, i, output_file, walkable_area, seed, fail) ==
    IF i > Len(matched) THEN [stores |-> st, exc |-> NoException, opened |-> opened]
    ELSE LET file == matched[i]
             output == IF output_file # NoOutput THEN output_file
                       ELSE auto_generate_output(file)
             trajectory_data == load_trajectory_data(inputs[file])
             Next(st2, exc) ==
                 IF exc # NoException THEN
                     [stores |-> st2, exc |-> exc, opened |-> opened \cup {output}]
                 ELSE ProcessFiles(st2, opened \cup {output}, inputs, matched, i + 1,
                                   output_file, walkable_area, seed, fail)
         IN  Only({Only({Next(st2, job.exc) : st2 \in {[st EXCEPT ![output] = job.db]}}) :
                   job \in {write_trajectory_to_sqlite(
                               trajectory_data, walkable_area, st[output], seed,
                               IF fail.file = i THEN fail
                               ELSE [file |-> 0, phase |-> "none", at |-> 0,
                                     auto |-> FALSE])}})

\* matched: list(Path().cwd().glob(file_pattern)).  [stores, exc, opened]
convert_files(st, inputs, matched, output_file, geometry, geometry_file, seed, fail) ==
    LET g == validate_geometry_options(geometry, geometry_file)
        v == validate_output_file(Len(matched))
    IN  IF g.exc # NoException THEN [stores |-> st, exc |-> g.exc, opened |-> {}]
        ELSE IF matched = <<>> THEN [stores |-> st, exc |-> NoException, opened |-> {}]
        ELSE IF v # NoException THEN [stores |-> st, exc |-> v, opened |-> {}]
        ELSE ProcessFiles(st, {}, inputs, matched, 1, output_file,
                          g.walkable_area, seed, fail)

(***************************************************************************)
(* The inputs of the model.                                                *)
(***************************************************************************)
FrameRates == {8}

\* The rows of an input file.  The writer passes id, x and y through; the
\* i-th row is of agent i, who stands at (i - 1, 2 * (i - 1)), so that rows
\* and coordinates differ and a mix-up shows.  The frames are free: unsorted,
\* repeated, with gaps, starting above 0.
Row(i, frame) == [frame |-> frame, id |-> i, x |-> i - 1, y |-> 2 * (i - 1)]

\* what an input file parses to: at least one row
FileContents ==
    UNION {{[data |-> [i \in 1 .. n |-> Row(i, fr[i])], frame_rate |-> r] :
                fr \in [1 .. n -> 0 .. MaxFrame], r \in FrameRates} :
            n \in 1 .. MaxRows}

\* the walkable areas a caller supplies
Triangle == << <<-2, 1>>, <<4, 1>>, <<1, 7>>, <<-2, 1>> >>
ExplicitAreas == {Triangle}
WalkableAreas == {None} \cup ExplicitAreas

HashSeeds == {11, 47}
InputFiles == {"a.txt", "b.txt"}
Paths == {"out.sqlite", "a.sqlite", "b.sqlite"}

SetupFailures ==
    {[phase |-> "setup", at |-> k, auto |-> a] : k \in 2 .. 14, a \in BOOLEAN}
WriteFailures ==
    {[phase |-> "write", at |-> k, auto |-> a] : k \in 2 .. 6, a \in BOOLEAN}
Failures == {[phase |-> "none", at |-> 0, auto |-> FALSE]}
                \cup SetupFailures \cup WriteFailures

(***************************************************************************)
(* The state machines.  Every operation records what it did in result and  *)
(* what it started from in before.                                         *)
(***************************************************************************)
NoResult ==
    [op |-> "none", path |-> NoOutput, walkable_area |-> None, area |-> None,
     exc |-> NoException, phase |-> "", setup |-> EmptyDb, matched |-> <<>>,
     opened |-> {}]

\* of an operation, what the next one remembers: whether it wrote a dataset
\* and succeeded, and with which walkable area
Summary(r) ==
    IF /\ r.op \in {"write_trajectory_to_sqlite", "_write_sqlite_database"}
       /\ r.exc = NoException
    THEN [op |-> r.op, walkable_area |-> r.walkable_area, area |-> r.area]
    ELSE [op |-> "", walkable_area |-> None, area |-> None]

Snapshot == [stores |-> stores, dataset |-> dataset, last |-> Summary(result)]

InitWith(contents, paths, seeds) ==
    /\ files \in contents
    /\ stores = [p \in paths |-> EmptyDb]
    /\ hashseed \in seeds
    /\ dataset = load_trajectory_data(files["a.txt"])
    /\ result = NoResult
    /\ before = [stores |-> stores, dataset |-> dataset, last |-> Summary(NoResult)]

\* the caller loads the input file again: a new dataset object
LoadDataset(f) ==
    /\ dataset' = load_trajectory_data(files[f])
    /\ result' = [NoResult EXCEPT !.op = "load"]
    /\ before' = Snapshot
    /\ UNCHANGED <<files, stores, hashseed>>

\* write_trajectory_to_sqlite(trajectory_data=dataset, walkable_area=wa,
\* output_file=p)
Job(p, wa, fail) ==
    \E r \in {write_trajectory_to_sqlite(dataset, wa, stores[p], hashseed, fail)} :
        /\ stores' = [stores EXCEPT ![p] = r.db]
        /\ dataset' = r.td
        /\ result' = [NoResult EXCEPT !.op = "write_trajectory_to_sqlite",
                        !.path = p, !.walkable_area = wa, !.area = r.area,
                        !.exc = r.exc, !.phase = r.phase, !.setup = r.setup,
                        !.opened = {p}]
        /\ before' = Snapshot
        /\ UNCHANGED <<files, hashseed>>

(***************************************************************************)
(* Spec: a caller of writer.py in one interpreter.  It loads the input     *)
(* file and converts the dataset it holds, any number of times, into the   *)
(* same output file, with storage failures at any statement.  The salt of  *)
(* the one interpreter never changes.                                      *)
(***************************************************************************)
Init == InitWith([{"a.txt"} -> FileContents], {"out.sqlite"}, {11})

Next ==
    \/ \E f \in DOMAIN files : LoadDataset(f)
    \/ \E wa \in WalkableAreas, fail \in Failures : Job("out.sqlite", wa, fail)

Spec == Init /\ [][Next]_vars

(***************************************************************************)
(* SpecRestart: the two halves of the writer called one by one on one      *)
(* store, by interpreters that come and go.                                *)
(***************************************************************************)
\* a new interpreter: a new hash salt; it loads the input file anew
NewProcess(seed, f) ==
    /\ seed # hashseed
    /\ hashseed' = seed
    /\ dataset' = load_trajectory_data(files[f])
    /\ UNCHANGED <<files, stores, result, before>>

\* _setup_sqlite_database alone, on a connection to p
Setup(p, wa) ==
    \E area \in {ResolveWalkableArea(dataset, wa)} :
    \E r \in {setup_sqlite_database(Connect(stores[p]), dataset, area, hashseed,
                                    NoFailure)} :
        /\ stores' = [stores EXCEPT ![p] = r.conn.file]
        /\ result' = [NoResult EXCEPT !.op = "_setup_sqlite_database",
                        !.path = p, !.walkable_area = wa, !.area = area,
                        !.exc = r.exc,
                        !.phase = IF r.exc = NoException THEN "done" ELSE "setup",
                        !.setup = r.conn.file, !.opened = {p}]
        /\ before' = Snapshot
        /\ UNCHANGED <<files, hashseed, dataset>>

\* _write_sqlite_database alone, on a connection to p
Write(p, wa) ==
    \E area \in {ResolveWalkableArea(dataset, wa)} :
    \E r \in {write_sqlite_database(Connect(stores[p]), dataset, area, hashseed,
                                    NoFailure)} :
        /\ Len(stores[p].rows["trajectory_data"]) < MaxWrites * Len(dataset.data)
        /\ stores' = [stores EXCEPT ![p] = r.conn.file]
        /\ dataset' = r.td
        /\ result' = [NoResult EXCEPT !.op = "_write_sqlite_database",
                        !.path = p, !.walkable_area = wa, !.area = area,
                        !.exc = r.exc,
                        !.phase = IF r.exc = NoException THEN "done" ELSE "write",
                        !.setup = stores[p], !.opened = {p}]
        /\ before' = Snapshot
        /\ UNCHANGED <<files, hashseed>>

NextRestart ==
    \/ \E seed \in HashSeeds, f \in DOMAIN files : NewProcess(seed, f)
    \/ \E wa \in WalkableAreas : Setup("out.sqlite", wa)
    \/ \E wa \in WalkableAreas : Write("out.sqlite", wa)

InitRestart == InitWith([{"a.txt"} -> FileContents], {"out.sqlite"}, HashSeeds)

SpecRestart == InitRestart /\ [][NextRestart]_vars

(***************************************************************************)
(* SpecCli: one run of the command line program, which calls convert_files *)
(* once, in a directory of two input files of one row each.                *)
(***************************************************************************)
\* the lists a glob over the input files gives
Matches == {<<>>, <<"a.txt">>, <<"b.txt">>, <<"a.txt", "b.txt">>, <<"b.txt", "a.txt">>}

CliFailures ==
    {[file |-> 0, phase |-> "none", at |-> 0, auto |-> FALSE]}
        \cup {[file |-> 1, phase |-> x.phase, at |-> x.at, auto |-> x.auto] :
                x \in SetupFailures \cup WriteFailures}

ConvertFiles(matched, output_file, geometry, geometry_file, fail) ==
    /\ result.op = "none"
    /\ \E r \in {convert_files(stores, files, matched, output_file, geometry,
                               geometry_file, hashseed, fail)} :
        /\ stores' = r.stores
        /\ result' = [NoResult EXCEPT !.op = "convert_files",
                        !.path = output_file, !.walkable_area = geometry,
                        !.area = geometry_file, !.exc = r.exc,
                        !.matched = matched, !.opened = r.opened]
        /\ before' = Snapshot
        /\ UNCHANGED <<files, hashseed, dataset>>

InitCli ==
    InitWith({c \in [InputFiles -> FileContents] :
                \A f \in InputFiles : Len(c[f].data) = 1}, Paths, HashSeeds)

NextCli ==
    \E matched \in Matches, output_file \in {NoOutput, "out.sqlite"},
       geometry \in WalkableAreas, geometry_file \in WalkableAreas,
       fail \in CliFailures :
        ConvertFiles(matched, output_file, geometry, geometry_file, fail)

SpecCli == InitCli /\ [][NextCli]_vars

(***************************************************************************)
(* The claims.                                                             *)
(***************************************************************************)
Store == stores["out.sqlite"]
Rows(db, t) == db.rows[t]
Column(rows, c) == {rows[i][c] : i \in DOMAIN rows}
Keys(db) == Column(Rows(db, "metadata"), 1)

\* the values stored in metadata under key
Values(db, key) ==
    LET m == Rows(db, "metadata")
    IN  {m[i][2] : i \in {j \in DOMAIN m : m[j][1] = key}}

\* the last operation was a conversion, and it succeeded
Converted ==
    /\ result.op = "write_trajectory_to_sqlite"
    /\ result.exc = NoException

\* the dataset the last operation was given, as it then was
Given == before.dataset.data
GivenFrames == {Given[i]["frame"] : i \in DOMAIN Given}
GivenXs == {Given[i]["x"] : i \in DOMAIN Given}
GivenYs == {Given[i]["y"] : i \in DOMAIN Given}

\* every table of db holds rows
Populated(db) ==
    /\ db.tables = TableNames
    /\ \A t \in TableNames : Rows(db, t) # <<>>

\* C4: after a successful conversion trajectory_data has one row per row of
\* the dataset, in the order of the dataset: (frame - min_frame, id, x, y, 0, 0)
\* with min_frame the least frame of the dataset as it was given; the least
\* stored frame is 0.
C4_TrajectoryRowsRebased ==
    Converted =>
        LET traj == Rows(Store, "trajectory_data")
            min_frame == Min(GivenFrames)
        IN  /\ Len(traj) = Len(Given)
            /\ \A i \in DOMAIN Given :
                  traj[i] = <<Given[i]["frame"] - min_frame, Given[i]["id"],
                              Given[i]["x"], Given[i]["y"], 0, 0>>
            /\ Min(Column(traj, 1)) = 0

C4_Witness ==
    /\ Converted
    /\ Len(Given) = 2
    /\ Min(GivenFrames) > 0
    /\ Given[1]["frame"] > Given[2]["frame"]

\* C3: after a successful conversion frame_data has max_frame - min_frame + 1
\* rows, their frames are exactly 0 .. max_frame - min_frame, each once, and
\* every row carries the hash of the one row of geometry.
C3_FrameDataCoversRange ==
    Converted =>
        LET fd == Rows(Store, "frame_data")
            geo == Rows(Store, "geometry")
            span == Max(GivenFrames) - Min(GivenFrames)
        IN  /\ Len(fd) = span + 1
            /\ Column(fd, 1) = 0 .. span
            /\ \A i, j \in DOMAIN fd : fd[i][1] = fd[j][1] => i = j
            /\ Len(geo) = 1
            /\ \A i \in DOMAIN fd : fd[i][2] = geo[1][1]

C3_Witness ==
    /\ Converted
    /\ Min(GivenFrames) > 0
    /\ Max(GivenFrames) > Min(GivenFrames)
    /\ Len(Rows(Store, "frame_data")) = 2

\* C6: after a successful conversion metadata holds one value under each of
\* xmin, ymin, xmax, ymax: the text of the bounding box of the walkable area
\* given, or without one of the bounds of the dataset widened by 1 on each
\* side.
C6_BoundsMetadata ==
    Converted =>
        LET wa == result.walkable_area
            expected ==
                IF wa # None THEN
                    [xmin |-> Min({wa[i][1] : i \in DOMAIN wa}),
                     ymin |-> Min({wa[i][2] : i \in DOMAIN wa}),
                     xmax |-> Max({wa[i][1] : i \in DOMAIN wa}),
                     ymax |-> Max({wa[i][2] : i \in DOMAIN wa})]
                ELSE [xmin |-> Min(GivenXs) - 1, ymin |-> Min(GivenYs) - 1,
                      xmax |-> Max(GivenXs) + 1, ymax |-> Max(GivenYs) + 1]
        IN  \A k \in {"xmin", "ymin", "xmax", "ymax"} :
                /\ Values(Store, k) = {FloatText(expected[k])}
                /\ Cardinality({i \in DOMAIN Rows(Store, "metadata") :
                                    Rows(Store, "metadata")[i][1] = k}) = 1

C6_Witness ==
    /\ Converted
    /\ result.walkable_area = None
    /\ Values(Store, "xmin") = {"-1.0"}
    /\ Values(Store, "xmax") = {"2.0"}
    /\ Values(Store, "ymin") = {"-1.0"}
    /\ Values(Store, "ymax") = {"3.0"}

\* C9: a successful conversion that follows a successful conversion of the
\* same dataset object with the same walkable area into the same file leaves
\* the file with the content the first one left.
C9_RerunSameContent ==
    (/\ Converted
     /\ before.last.op = "write_trajectory_to_sqlite"
     /\ before.last.walkable_area = result.walkable_area)
        => Store = before.stores["out.sqlite"]

C9_Witness ==
    /\ Converted
    /\ before.last.op = "write_trajectory_to_sqlite"
    /\ before.last.walkable_area = result.walkable_area
    /\ result.walkable_area = None
    /\ Len(Rows(Store, "trajectory_data")) = 2
    /\ Len(Rows(Store, "frame_data")) = 3

\* the last operation was a conversion whose writer raised
WriterFailed ==
    /\ result.op = "write_trajectory_to_sqlite"
    /\ result.phase = "write"

\* the one row the set-up writes to geometry for the polygon it was given
SetupGeometryRow(polygon) == <<hash(hashseed, to_wkt(polygon)), to_wkt(polygon)>>

\* C1, as claimed: when the writer fails the transaction is rolled back, the
\* error wraps its cause, and trajectory_data, geometry and frame_data hold
\* no rows while metadata holds only version and fps.
C1_AsClaimed ==
    WriterFailed =>
        /\ Store = result.setup
        /\ Rows(Store, "trajectory_data") = <<>>
        /\ Rows(Store, "geometry") = <<>>
        /\ Rows(Store, "frame_data") = <<>>
        /\ Keys(Store) = {"version", "fps"}
        /\ result.exc.type = "RuntimeError"
        /\ result.exc.cause = "sqlite3.Error"

\* C1, what the code does: when a statement of the writer raises
\* sqlite3.Error the file is left exactly as the set-up left it:
\* trajectory_data and frame_data hold no rows, geometry holds the one row
\* the set-up inserted, metadata holds only version and fps; the call raises
\* the RuntimeError chained to the cause, or, when sqlite had rolled back
\* already, the bare error of the handler's ROLLBACK.
C1_WriterFailureRollsBack ==
    WriterFailed =>
        /\ Store = result.setup
        /\ Rows(Store, "trajectory_data") = <<>>
        /\ Rows(Store, "frame_data") = <<>>
        /\ Rows(Store, "geometry") = <<SetupGeometryRow(result.area)>>
        /\ Keys(Store) = {"version", "fps"}
        /\ Len(Rows(Store, "metadata")) = 2
        /\ \/ /\ result.exc.type = "RuntimeError"
              /\ result.exc.cause = "sqlite3.Error"
           \/ result.exc = NoTransactionError

C1_Witness ==
    /\ WriterFailed
    /\ result.exc.type = "RuntimeError"
    /\ Populated(before.stores["out.sqlite"])

\* the set-up of the last conversion succeeded, on a file that a run before
\* had filled
SetupDoneOnPopulated ==
    /\ result.op = "write_trajectory_to_sqlite"
    /\ result.phase \in {"write", "done"}
    /\ Populated(before.stores["out.sqlite"])

VersionAndFps ==
    << <<"version", IntText(DATABASE_VERSION)>>,
       <<"fps", FloatText(before.dataset.frame_rate)>> >>

C7_AsClaimed ==
    (result.op = "write_trajectory_to_sqlite" /\ result.phase = "setup") =>
        /\ Store = before.stores["out.sqlite"]
        /\ result.exc.cause = "sqlite3.Error"
        /\ result.exc # WriteError

\* C10: a conversion, whether it returns or raises, leaves the dataset it
\* was given as it was: the same rows with the same columns.
C10_AsClaimed ==
    result.op = "write_trajectory_to_sqlite" => dataset = before.dataset

\* C5: when the writer has run twice in a row on one file for the same
\* walkable area, with no set-up in between, geometry holds exactly one row
\* for the WKT of that area.
C5_AsClaimed ==
    (/\ result.op = "_write_sqlite_database"
     /\ result.exc = NoException
     /\ before.last.op = "_write_sqlite_database"
     /\ before.last.area = result.area)
        => Cardinality({i \in DOMAIN Rows(Store, "geometry") :
                            Rows(Store, "geometry")[i][2] = to_wkt(result.area)}) = 1

\* C8: convert_files turns a batch down for its output file exactly when an
\* output file is given and several input files match, and then opens no
\* store; several input files without an output file are each converted into
\* a store of their own.
C8_AsClaimed ==
    (/\ result.op = "convert_files"
     /\ ~(result.walkable_area # None /\ result.area # None))
        => LET several == Len(result.matched) > 1
               refused == result.exc = validate_output_file(Len(result.matched))
                            /\ result.exc # NoException
           IN  /\ refused <=> (result.path # NoOutput /\ several)
               /\ refused => result.opened = {}
               /\ (several /\ result.path = NoOutput /\ result.exc = NoException)
                    => result.opened =
                         {auto_generate_output(result.matched[i]) :
                            i \in DOMAIN result.matched}

=============================================================================
